---- MODULE Spec2Model ----
(***************************************************************************)
(* A model of clear-cube: the block geometry and movement resolution of    *)
(* src/src/block.rs, the level generator of src/src/generation.rs and the  *)
(* click / animation systems of src/src/main.rs.                           *)
(*                                                                         *)
(* Numbers.  Block corners are i32 and are modelled as integers (all       *)
(* values stay far below 2^31).  The f32 values the code computes from     *)
(* them are multiples of 0.5 of small magnitude, which f32 represents      *)
(* exactly; they are modelled in half-units, i.e. as the integer 2*v.      *)
(* So a centre is min + max, "dot >= 1.0" reads ">= 2", "abs < 1.0" reads  *)
(* "< 2" and the cast "as i32" is a division by two truncated toward zero. *)
(***************************************************************************)
EXTENDS Integers, Sequences, FiniteSets, Bags, TLC

(***************************************************************************)
(* Bounds of the model.                                                    *)
(***************************************************************************)
\* blocks handed to move_block lie in the cube [0, MaxCoord]^3
MaxCoord == 4

\* the obstacle search runs on blocks of the slab [0, FrontLen] x [0, 2] x [0, 1]
FrontLen == 3

\* ... and on sequences of at most MaxAll blocks
MaxAll == 2

\* generate_level is called with side_len in 1..MaxSide
MaxSide == 3

\* the game is played up to level MaxLevel (the application starts at level 1)
MaxLevel == 2

\* the levels played hold at most MaxBlocks blocks
MaxBlocks == 3

\* the one-block levels are those of the levels 1..MaxFlyLevel
MaxFlyLevel == 19

\* locked_blocks_to_remove is applied to lines of at most MaxLine blocks
MaxLine == 4

(***************************************************************************)
(* block.rs: Axis, Direction                                               *)
(***************************************************************************)
Axis == {"X", "Y", "Z"}

\* Axis::ALL, in the order of the array
ALL == <<"X", "Y", "Z">>

remaining_two(axis) ==
    CASE axis = "X" -> <<"Y", "Z">>
      [] axis = "Y" -> <<"Z", "X">>
      [] axis = "Z" -> <<"X", "Y">>

Direction == [axis : Axis, positive : BOOLEAN]

XP == [axis |-> "X", positive |-> TRUE]
XN == [axis |-> "X", positive |-> FALSE]
YP == [axis |-> "Y", positive |-> TRUE]
YN == [axis |-> "Y", positive |-> FALSE]
ZP == [axis |-> "Z", positive |-> TRUE]
ZN == [axis |-> "Z", positive |-> FALSE]

sign(d) == IF d.positive THEN 1 ELSE -1

\* IVec3 / Vec3 values are records with fields x, y, z
Vec(a, b, c) == [x |-> a, y |-> b, z |-> c]

vec3_component(axis, v) ==
    CASE axis = "X" -> v.x
      [] axis = "Y" -> v.y
      [] axis = "Z" -> v.z

\* v with its component on axis replaced (struct update IVec3 { x: a, ..v },
\* IVec3::with_x and the like)
with_component(axis, v, a) ==
    CASE axis = "X" -> [v EXCEPT !.x = a]
      [] axis = "Y" -> [v EXCEPT !.y = a]
      [] axis = "Z" -> [v EXCEPT !.z = a]

axis_unit_vector(axis) ==
    CASE axis = "X" -> Vec(1, 0, 0)
      [] axis = "Y" -> Vec(0, 1, 0)
      [] axis = "Z" -> Vec(0, 0, 1)

\* Direction::unit_vector: sign * axis unit vector
unit_vector(d) ==
    LET u == axis_unit_vector(d.axis)
    IN  Vec(sign(d) * u.x, sign(d) * u.y, sign(d) * u.z)

dot(u, v) == u.x * v.x + u.y * v.y + u.z * v.z

sub(u, v) == Vec(u.x - v.x, u.y - v.y, u.z - v.z)

abs(a) == IF a < 0 THEN -a ELSE a

imin(a, b) == IF a < b THEN a ELSE b

imax(a, b) == IF a > b THEN a ELSE b

\* the cast "f32 as i32" of a value given in half-units: truncation toward zero
as_i32(h) == IF h >= 0 THEN h \div 2 ELSE -((-h) \div 2)

(***************************************************************************)
(* Option<T>: None is the empty sequence, Some(v) the one-element sequence *)
(***************************************************************************)
None == <<>>

Some(v) == <<v>>

is_none(o) == Len(o) = 0

unwrap(o) == o[1]

(***************************************************************************)
(* block.rs: Block                                                         *)
(***************************************************************************)
MkBlock(d, mn, mx) == [direction |-> d, min |-> mn, max |-> mx]

get_isize(b) == sub(b.max, b.min)

\* Block::get_center in half-units: 2 * midpoint(max, min) = max + min
get_center(b) == Vec(b.max.x + b.min.x, b.max.y + b.min.y, b.max.z + b.min.z)

get_elongation(b) ==
    LET s == get_isize(b)
    IN  CASE s = Vec(1, 1, 1) -> None
          [] s = Vec(2, 1, 1) -> Some("X")
          [] s = Vec(1, 2, 1) -> Some("Y")
          [] s = Vec(1, 1, 2) -> Some("Z")
          [] OTHER            -> None

\* IRect::new(x0, y0, x1, y1): the rectangle spanned by the two corners
IRect(x0, y0, x1, y1) ==
    [min |-> <<imin(x0, x1), imin(y0, y1)>>, max |-> <<imax(x0, x1), imax(y0, y1)>>]

\* !rect1.intersect(rect2).is_empty(): the intersection has positive width
\* and positive height
\* faulty variant: rectangles that only share an edge count as overlapping
check_overlap_rectangles_touching(rect1, rect2) ==
    LET lo == <<imax(rect1.min[1], rect2.min[1]), imax(rect1.min[2], rect2.min[2])>>
        hi == <<imin(rect1.max[1], rect2.max[1]), imin(rect1.max[2], rect2.max[2])>>
    IN  ~(lo[1] > hi[1] \/ lo[2] > hi[2])

check_overlap_rectangles(rect1, rect2) ==
    LET lo == <<imax(rect1.min[1], rect2.min[1]), imax(rect1.min[2], rect2.min[2])>>
        hi == <<imin(rect1.max[1], rect2.max[1]), imin(rect1.max[2], rect2.max[2])>>
    IN  ~(lo[1] >= hi[1] \/ lo[2] >= hi[2])

check_overlap_in_direction(b1, b2, direction) ==
    LET rects ==
          CASE direction.axis = "X" ->
                 <<IRect(b1.min.y, b1.min.z, b1.max.y, b1.max.z),
                   IRect(b2.min.y, b2.min.z, b2.max.y, b2.max.z)>>
            [] direction.axis = "Y" ->
                 <<IRect(b1.min.x, b1.min.z, b1.max.x, b1.max.z),
                   IRect(b2.min.x, b2.min.z, b2.max.x, b2.max.z)>>
            [] direction.axis = "Z" ->
                 <<IRect(b1.min.x, b1.min.y, b1.max.x, b1.max.y),
                   IRect(b2.min.x, b2.min.y, b2.max.x, b2.max.y)>>
    IN  check_overlap_rectangles(rects[1], rects[2])

\* faulty variant: the moved block always gets length 1
move_length_unit(self) == 1

\* the travel-axis length move_block gives the moved block
move_length(self) ==
    IF get_elongation(self) = Some(self.direction.axis) THEN 2 ELSE 1

\* the directional guard of move_block, as written in each of the six arms:
\* positive arms test self.max <= static.min, negative arms self.max >= static.min
move_guard(self, static_block) ==
    LET ax == self.direction.axis
    IN  IF self.direction.positive
        THEN vec3_component(ax, self.max) <= vec3_component(ax, static_block.min)
        ELSE vec3_component(ax, self.max) >= vec3_component(ax, static_block.min)

\* faulty variant: min and max are taken from static_block, not from self
move_target_of_static(self, static_block) ==
    LET ax     == self.direction.axis
        length == move_length(self)
        smin   == vec3_component(ax, static_block.min)
        smax   == vec3_component(ax, static_block.max)
    IN  IF self.direction.positive
        THEN MkBlock(self.direction,
                     with_component(ax, static_block.min, smin - length),
                     with_component(ax, static_block.max, smin))
        ELSE MkBlock(self.direction,
                     with_component(ax, static_block.min, smax),
                     with_component(ax, static_block.max, smax + length))

\* the block a guarded arm of move_block returns
move_target(self, static_block) ==
    LET ax     == self.direction.axis
        length == move_length(self)
        smin   == vec3_component(ax, static_block.min)
        smax   == vec3_component(ax, static_block.max)
    IN  IF self.direction.positive
        THEN MkBlock(self.direction,
                     with_component(ax, self.min, smin - length),
                     with_component(ax, self.max, smin))
        ELSE MkBlock(self.direction,
                     with_component(ax, self.min, smax),
                     with_component(ax, self.max, smax + length))

move_block(self, static_block) ==
    IF check_overlap_in_direction(self, static_block, self.direction)
    THEN IF move_guard(self, static_block)
         THEN Some(move_target(self, static_block))
         ELSE None
    ELSE None

(***************************************************************************)
(* The valid-shaped blocks of a box: unit cubes and dominoes (one axis of  *)
(* extent 2), with any of the six directions.                              *)
(***************************************************************************)
Directions == {XP, XN, YP, YN, ZP, ZN}

Shapes == {Vec(1, 1, 1), Vec(2, 1, 1), Vec(1, 2, 1), Vec(1, 1, 2)}

\* the blocks of valid shape inside [0, nx] x [0, ny] x [0, nz]
BlocksIn(nx, ny, nz) ==
    LET cand == { MkBlock(d, Vec(px, py, pz), Vec(px + s.x, py + s.y, pz + s.z)) :
                    d \in Directions, s \in Shapes,
                    px \in 0..(nx - 1), py \in 0..(ny - 1), pz \in 0..(nz - 1) }
    IN  { b \in cand : b.max.x <= nx /\ b.max.y <= ny /\ b.max.z <= nz }

(***************************************************************************)
(* block.rs: the search for the obstacle in front                          *)
(***************************************************************************)
\* faulty variant: the forward test ignores the sign of the direction
possible_collision_unsigned(self, b) ==
    LET not_self   == b # self
        diff       == sub(get_center(b), get_center(self))
        ahead      == abs(dot(unit_vector(self.direction), diff)) >= 2
        rem        == remaining_two(self.direction.axis)
        in_the_way == \A i \in 1..2 : abs(vec3_component(rem[i], diff)) < 2
    IN  not_self /\ ahead /\ in_the_way

possible_collision(self, b) ==
    LET not_self   == b # self
        diff       == sub(get_center(b), get_center(self))
        ahead      == dot(unit_vector(self.direction), diff) >= 2
        rem        == remaining_two(self.direction.axis)
        in_the_way == \A i \in 1..2 : abs(vec3_component(rem[i], diff)) < 2
    IN  not_self /\ ahead /\ in_the_way

\* Iterator::filter over a sequence, keeping the order
RECURSIVE filter_front(_, _)
filter_front(self, all_blocks) ==
    IF all_blocks = <<>> THEN <<>>
    ELSE (IF possible_collision(self, Head(all_blocks))
          THEN <<Head(all_blocks)>> ELSE <<>>)
         \o filter_front(self, Tail(all_blocks))

get_blocks_in_front(self, all_blocks) == filter_front(self, all_blocks)

\* the key of min_by_key: the forward distance between the centres, cast to i32
forward_key(self, b) ==
    as_i32(dot(unit_vector(self.direction), sub(get_center(b), get_center(self))))

\* faulty variant: on equal keys the later element wins
min_step_last(self, kept, later) ==
    IF forward_key(self, kept) >= forward_key(self, later) THEN later ELSE kept

\* the step of Iterator::min_by_key's reduction: the later element replaces the
\* kept one only when the kept one compares Greater
min_step(self, kept, later) ==
    IF forward_key(self, kept) > forward_key(self, later) THEN later ELSE kept

RECURSIVE min_reduce(_, _, _)
min_reduce(self, kept, rest) ==
    IF rest = <<>> THEN kept
    ELSE min_reduce(self, min_step(self, kept, Head(rest)), Tail(rest))

\* Iterator::min_by_key: None on an empty iterator, else the reduction
min_by_key(self, blocks) ==
    IF blocks = <<>> THEN None
    ELSE Some(min_reduce(self, Head(blocks), Tail(blocks)))

get_nearest_block_in_front(self, all_blocks) ==
    min_by_key(self, filter_front(self, all_blocks))

(***************************************************************************)
(* main.rs: the fly-away position                                          *)
(***************************************************************************)
EDGE == 20

get_flyaway_block_position(block) ==
    LET ax   == block.direction.axis
        size == vec3_component(ax, get_isize(block))
    IN  IF block.direction.positive
        THEN MkBlock(block.direction,
                     with_component(ax, block.min, EDGE - size),
                     with_component(ax, block.max, EDGE))
        ELSE MkBlock(block.direction,
                     with_component(ax, block.min, -EDGE),
                     with_component(ax, block.max, -EDGE + size))

(***************************************************************************)
(* generation.rs: Seed, Width, GBlock, one call of gen_tree                *)
(***************************************************************************)
\* Seed { x: (lo, hi), y: (lo, hi), z: (lo, hi) }
MkSeed(xr, yr, zr) == [x |-> xr, y |-> yr, z |-> zr]

get_field(seed, axis) ==
    CASE axis = "X" -> seed.x
      [] axis = "Y" -> seed.y
      [] axis = "Z" -> seed.z

\* faulty variant: the high sub-seed starts one past mid
split_gap(seed, axis, mid) ==
    CASE axis = "X" -> << [seed EXCEPT !.x = <<seed.x[1], mid>>],
                          [seed EXCEPT !.x = <<mid + 1, seed.x[2]>>] >>
      [] axis = "Y" -> << [seed EXCEPT !.y = <<seed.y[1], mid>>],
                          [seed EXCEPT !.y = <<mid + 1, seed.y[2]>>] >>
      [] axis = "Z" -> << [seed EXCEPT !.z = <<seed.z[1], mid>>],
                          [seed EXCEPT !.z = <<mid + 1, seed.z[2]>>] >>

\* Seed::split: the low and the high sub-seed, in this order
split(seed, axis, mid) ==
    CASE axis = "X" -> << [seed EXCEPT !.x = <<seed.x[1], mid>>],
                          [seed EXCEPT !.x = <<mid, seed.x[2]>>] >>
      [] axis = "Y" -> << [seed EXCEPT !.y = <<seed.y[1], mid>>],
                          [seed EXCEPT !.y = <<mid, seed.y[2]>>] >>
      [] axis = "Z" -> << [seed EXCEPT !.z = <<seed.z[1], mid>>],
                          [seed EXCEPT !.z = <<mid, seed.z[2]>>] >>

to_min_max(seed) ==
    << Vec(seed.x[1], seed.y[1], seed.z[1]), Vec(seed.x[2], seed.y[2], seed.z[2]) >>

\* faulty variant: a width of 3 is classified as Two
width_three_is_two(x) ==
    CASE x = 1  -> "One"
      [] x = 2  -> "Two"
      [] x = 3  -> "Two"
      [] x >= 2 -> "More"
      [] OTHER  -> "panic"

\* width: One, Two, More, or the panic "wrong width"
width(x) ==
    CASE x = 1  -> "One"
      [] x = 2  -> "Two"
      [] x >= 2 -> "More"
      [] OTHER  -> "panic"

\* the widths of the three axes, in the order of Axis::ALL
widths_of(seed) ==
    << width(seed.x[2] - seed.x[1]),
       width(seed.y[2] - seed.y[1]),
       width(seed.z[2] - seed.z[1]) >>

count_of(widths, w) == Cardinality({ i \in 1..3 : widths[i] = w })

\* widths.iter().zip(Axis::ALL.iter()).filter(..).next(): the first axis of
\* width Two
first_two_axis(widths) ==
    ALL[CHOOSE i \in 1..3 : widths[i] = "Two" /\ \A j \in 1..(i - 1) : widths[j] # "Two"]

\* faulty variant: the first axis, whatever its width
first_wide_axis_any(widths) == ALL[1]

\* the first axis whose width is not One
first_wide_axis(widths) ==
    ALL[CHOOSE i \in 1..3 : widths[i] # "One" /\ \A j \in 1..(i - 1) : widths[j] = "One"]

\* faulty variant: every axis, whatever its width
wide_axes_all(widths) == Axis

\* the axes whose width is not One
wide_axes(widths) == { ALL[i] : i \in { j \in 1..3 : widths[j] # "One" } }

\* GBlock { direction: Option<Direction>, min, max }
GBlock(odir, mn, mx) == [direction |-> odir, min |-> mn, max |-> mx]

\* the outcomes of random_direction
random_direction == { [axis |-> ALL[k + 1], positive |-> p] : k \in 0..2, p \in BOOLEAN }

\* the leaves a call may return for its seed: filled with a random direction,
\* or empty
leaf_outcomes(seed) ==
    LET mm == to_min_max(seed)
    IN  { GBlock(Some(d), mm[1], mm[2]) : d \in random_direction }
          \cup { GBlock(None, mm[1], mm[2]) }

\* the split points rng.random_range(low + 1 ..= high - 1) may return
interior_points(seed, axis) ==
    (get_field(seed, axis)[1] + 1) .. (get_field(seed, axis)[2] - 1)

\* What one call gen_tree(rng, seed) does before it recurses, for every outcome
\* of its random choices: [kind |-> "leaf", leaf |-> the GBlock],
\* [kind |-> "node", low |-> seed, high |-> seed] or [kind |-> "panic"].
gen_tree_outcomes(seed) ==
    LET widths == widths_of(seed)
        ones   == count_of(widths, "One")
        twos   == count_of(widths, "Two")
        leaves == { [kind |-> "leaf", leaf |-> g] : g \in leaf_outcomes(seed) }
        nodes(axis, mids) ==
            IF mids = {} THEN { [kind |-> "panic"] }
            ELSE { [kind |-> "node", low |-> split(seed, axis, m)[1],
                                     high |-> split(seed, axis, m)[2]] : m \in mids }
    IN  IF \E i \in 1..3 : widths[i] = "panic" THEN { [kind |-> "panic"] }
        ELSE CASE ones = 3 /\ twos = 0 -> leaves
               [] ones = 2 /\ twos = 1 ->
                    nodes(first_two_axis(widths),
                          {get_field(seed, first_two_axis(widths))[1] + 1})
                      \cup leaves
               [] ones = 2 /\ twos # 1 ->
                    nodes(first_wide_axis(widths),
                          interior_points(seed, first_wide_axis(widths)))
               [] ones = 1 ->
                    UNION { nodes(axis, interior_points(seed, axis)) :
                              axis \in wide_axes(widths) }
               [] ones = 0 ->
                    UNION { nodes(axis, interior_points(seed, axis)) : axis \in Axis }
               [] OTHER -> { [kind |-> "panic"] }

\* gblock_to_block: the Block of a filled leaf, None for an empty one
gblock_to_block(gb) ==
    IF is_none(gb.direction) THEN None
    ELSE Some(MkBlock(unwrap(gb.direction), gb.min, gb.max))

\* faulty variant: the leaves of the high subtree are pushed first
flatten_node_high_first(l, r) == r \o l

\* flatten_tree_rec on Tree::Node(l, r): the leaves of l, then those of r
flatten_node(l, r) == l \o r

\* gblocks_to_blocks(flatten_tree(gen_tree(rng, seed))), for every outcome of
\* the random choices that fills at most k leaves, each with a direction of
\* dirs.  A call that panics returns nothing.
RECURSIVE gen_blocks(_, _, _)
gen_blocks(seed, k, dirs) ==
    LET of_outcome(o) ==
            CASE o.kind = "leaf" ->
                   IF is_none(gblock_to_block(o.leaf)) THEN { <<>> }
                   ELSE IF k >= 1 /\ unwrap(o.leaf.direction) \in dirs
                        THEN { << unwrap(gblock_to_block(o.leaf)) >> }
                        ELSE {}
              [] o.kind = "node" ->
                   UNION { { flatten_node(l, r) :
                               r \in gen_blocks(o.high, k - Len(l), dirs) } :
                           l \in gen_blocks(o.low, k, dirs) }
              [] OTHER -> {}
    IN  UNION { of_outcome(o) : o \in gen_tree_outcomes(seed) }

(***************************************************************************)
(* generation.rs: the pruning of locked blocks                             *)
(***************************************************************************)
\* faulty variant: seen_negative is true once any negative block has been read
RECURSIVE locked_scan_any_negative(_, _, _, _)
locked_scan_any_negative(blocks, i, forward, backward) ==
    IF i > Len(blocks) THEN <<forward, backward>>
    ELSE LET blk           == blocks[i]
             seen_positive == forward # <<>>
             seen_negative == \E j \in 1..(i - 1) : ~blocks[j].direction.positive
             forward1      == IF ~seen_negative /\ blk.direction.positive
                              THEN Append(forward, blk) ELSE forward
             backward1     == IF seen_positive /\ ~blk.direction.positive
                              THEN Append(backward, blk) ELSE backward
         IN  locked_scan_any_negative(blocks, i + 1, forward1, backward1)

\* the loop of locked_blocks_to_remove over blocks[i..]: <<forward, backward>>
RECURSIVE locked_scan(_, _, _, _)
locked_scan(blocks, i, forward, backward) ==
    IF i > Len(blocks) THEN <<forward, backward>>
    ELSE LET blk           == blocks[i]
             seen_positive == forward # <<>>
             seen_negative == backward # <<>>
             forward1      == IF ~seen_negative /\ blk.direction.positive
                              THEN Append(forward, blk) ELSE forward
             backward1     == IF seen_positive /\ ~blk.direction.positive
                              THEN Append(backward, blk) ELSE backward
         IN  locked_scan(blocks, i + 1, forward1, backward1)

\* faulty variant: the two lists are reported even when one of them is empty
locked_blocks_unconditional(blocks) ==
    LET fb == locked_scan(blocks, 1, <<>>, <<>>)
    IN  fb[1] \o fb[2]

\* faulty variant: the backward list is reported before the forward list
locked_blocks_backward_first(blocks) ==
    LET fb == locked_scan(blocks, 1, <<>>, <<>>)
    IN  IF fb[1] # <<>> /\ fb[2] # <<>> THEN fb[2] \o fb[1] ELSE <<>>

locked_blocks_to_remove(blocks) ==
    LET fb == locked_scan(blocks, 1, <<>>, <<>>)
    IN  IF fb[1] # <<>> /\ fb[2] # <<>> THEN fb[1] \o fb[2] ELSE <<>>

\* project_vec / project_ivec: the components of v on the two axes
project(v, axes) == << vec3_component(axes[1], v), vec3_component(axes[2], v) >>

\* extract_along_line: point is given in half-units; the Manhattan distance of
\* the projected centre to it is at most 0.5
extract_along_line(dir, point, blocks) ==
    LET other == remaining_two(dir)
        on_line(b) ==
            LET proj == project(get_center(b), other)
            IN  abs(proj[1] - point[1]) + abs(proj[2] - point[2]) <= 1
    IN  SelectSeq(blocks, on_line)

\* the elements of a sequence, as a set
Range(f) == { f[i] : i \in DOMAIN f }

\* faulty variant: the blocks kept are stored in reverse order
remove_locked_cell_reversed(blocks, axis, x, y) ==
    LET p              == << 2 * x + 1, 2 * y + 1 >>
        line_of_blocks == extract_along_line(axis, p, blocks)
        to_remove      == locked_blocks_to_remove(line_of_blocks)
        kept(b)        == b \notin Range(to_remove)
        left           == SelectSeq(blocks, kept)
    IN  [ i \in 1..Len(left) |-> left[Len(left) + 1 - i] ]

\* faulty variant: only the first block of to_remove is dropped
remove_locked_cell_first_only(blocks, axis, x, y) ==
    LET p              == << 2 * x + 1, 2 * y + 1 >>
        line_of_blocks == extract_along_line(axis, p, blocks)
        to_remove      == locked_blocks_to_remove(line_of_blocks)
        kept(b)        == to_remove = <<>> \/ b # Head(to_remove)
    IN  SelectSeq(blocks, kept)

\* the body of the two inner loops of remove_locked for the cell (x, y)
remove_locked_cell(blocks, axis, x, y) ==
    LET p              == << 2 * x + 1, 2 * y + 1 >>
        line_of_blocks == extract_along_line(axis, p, blocks)
        to_remove      == locked_blocks_to_remove(line_of_blocks)
        kept(b)        == b \notin Range(to_remove)
    IN  SelectSeq(blocks, kept)

\* the loop "for y in lo_y..hi_y" from y on
RECURSIVE remove_locked_ys(_, _, _, _, _)
remove_locked_ys(blocks, axis, x, y, hi_y) ==
    IF y >= hi_y THEN blocks
    ELSE remove_locked_ys(remove_locked_cell(blocks, axis, x, y), axis, x, y + 1, hi_y)

\* the loop "for x in lo_x..hi_x" from x on
RECURSIVE remove_locked_xs(_, _, _, _, _, _)
remove_locked_xs(blocks, axis, x, hi_x, lo_y, hi_y) ==
    IF x >= hi_x THEN blocks
    ELSE remove_locked_xs(remove_locked_ys(blocks, axis, x, lo_y, hi_y),
                          axis, x + 1, hi_x, lo_y, hi_y)

\* the fold of the componentwise minimum of the min corners (IVec3::MAX for no
\* block) and of the maximum of the max corners (IVec3::MIN for no block)
I32_MAX == 2147483647

I32_MIN == -2147483647 - 1

RECURSIVE bounds_fold(_, _, _)
bounds_fold(blocks, lower, upper) ==
    IF blocks = <<>> THEN <<lower, upper>>
    ELSE LET b == Head(blocks)
         IN  bounds_fold(Tail(blocks),
                 Vec(imin(lower.x, b.min.x), imin(lower.y, b.min.y), imin(lower.z, b.min.z)),
                 Vec(imax(upper.x, b.max.x), imax(upper.y, b.max.y), imax(upper.z, b.max.z)))

bounds(blocks) ==
    bounds_fold(blocks, Vec(I32_MAX, I32_MAX, I32_MAX), Vec(I32_MIN, I32_MIN, I32_MIN))

\* the loop "for axis in Axis::ALL" from the k-th axis on
RECURSIVE remove_locked_axes(_, _, _, _)
remove_locked_axes(blocks, k, lower, upper) ==
    IF k > 3 THEN blocks
    ELSE LET axis       == ALL[k]
             remaining  == remaining_two(axis)
             lower_proj == project(lower, remaining)
             upper_proj == project(upper, remaining)
         IN  remove_locked_axes(
                 remove_locked_xs(blocks, axis, lower_proj[1], upper_proj[1],
                                  lower_proj[2], upper_proj[2]),
                 k + 1, lower, upper)

remove_locked(blocks) ==
    LET lu == bounds(blocks)
    IN  remove_locked_axes(blocks, 1, lu[1], lu[2])

(***************************************************************************)
(* State.  Each specification below drives its own group of variables and  *)
(* leaves the others at their initial values.                              *)
(***************************************************************************)
VARIABLES
    op,            \* the operation applied last ("init" before any)
    self_block,    \* move_block / get_blocks_in_front: self, as Some(block)
    static_block,  \* move_block: the obstacle, as Some(block)
    moved,         \* move_block: the Option<Block> returned
    all_blocks,    \* get_blocks_in_front / get_nearest_block_in_front: the input
    in_front,      \* get_blocks_in_front: the Vec<Block> returned
    nearest,       \* get_nearest_block_in_front: the Option<Block> returned
    side_len,      \* generate_level: its argument
    stack,         \* gen_tree: the seeds whose call is pending, next call first
    leaf,          \* the leaf the last call of gen_tree returned, which
                   \* flatten_tree pushes to acc; None if it returned a node
    covered,       \* flatten_tree: the bag of unit cells of the leaves in acc
    fatal,         \* generation has panicked
    interface,     \* State<Interface>: "Menu" or "Gameplay"
    current_level, \* Res<CurrentLevel>
    level_center,  \* Res<LevelCenter>, in half-units
    ents,          \* the entities that carry a Block component
    block,         \* entity -> its Block component
    translation,   \* entity -> its Transform's translation, in half-units
    move_dest,     \* entity -> its MoveDest component as an Option
    click,         \* the Pointer<Click> handled last: [target, button]
    crashed,       \* a system has panicked
    blocks,        \* remove_locked: the Vec<Block> it prunes in place
    scan,          \* remove_locked: the iterations <<axis, x, y>> still to run
    cell,          \* remove_locked: the iteration run last, as an Option
    line_of_blocks, \* the argument of the last locked_blocks_to_remove call
    to_remove,     \* the Vec<Block> the last locked_blocks_to_remove returned
    pass           \* which run of remove_locked on the blocks this is

vars == <<op, self_block, static_block, moved, all_blocks, in_front, nearest,
          side_len, stack, leaf, covered, fatal,
          interface, current_level, level_center, ents, block, translation,
          move_dest, click, crashed,
          blocks, scan, cell, line_of_blocks, to_remove, pass>>

moveVars == <<self_block, static_block, moved>>

frontVars == <<all_blocks, in_front, nearest>>

MoveIdle == self_block = None /\ static_block = None /\ moved = None

FrontIdle == all_blocks = <<>> /\ in_front = <<>> /\ nearest = None

genVars == <<side_len, stack, leaf, covered, fatal>>

GenIdle ==
    side_len = 0 /\ stack = <<>> /\ leaf = None /\ covered = EmptyBag /\ fatal = FALSE

gameVars == <<interface, current_level, level_center, ents, block, translation,
              move_dest, click, crashed>>

GameIdle ==
    /\ interface = "Menu" /\ current_level = 0 /\ level_center = Vec(0, 0, 0)
    /\ ents = {} /\ block = <<>> /\ translation = <<>> /\ move_dest = <<>>
    /\ click = None /\ crashed = FALSE

pruneVars == <<blocks, scan, cell, line_of_blocks, to_remove, pass>>

PruneIdle ==
    /\ blocks = <<>> /\ scan = <<>> /\ cell = None /\ line_of_blocks = <<>>
    /\ to_remove = <<>> /\ pass = 0

(***************************************************************************)
(* SpecMove: move_block applied to every pair of valid-shaped blocks of    *)
(* the cube [0, MaxCoord]^3.                                               *)
(***************************************************************************)
MoveInputs == BlocksIn(MaxCoord, MaxCoord, MaxCoord)

InitMove ==
    /\ op = "init"
    /\ self_block \in { Some(b) : b \in MoveInputs }
    /\ static_block = None
    /\ moved = None
    /\ FrontIdle
    /\ GenIdle
    /\ PruneIdle
    /\ GameIdle

\* let moved = self.move_block(&static_block)
MoveBlock ==
    /\ op = "init"
    /\ \E o \in MoveInputs :
         /\ static_block' = Some(o)
         /\ moved' = move_block(unwrap(self_block), o)
    /\ op' = "move_block"
    /\ UNCHANGED <<self_block, frontVars, genVars, pruneVars, gameVars>>

NextMove == MoveBlock

SpecMove == InitMove /\ [][NextMove]_vars

(***************************************************************************)
(* SpecFront: get_blocks_in_front and get_nearest_block_in_front applied   *)
(* to every self and every sequence of at most MaxAll blocks of the slab   *)
(* [0, FrontLen] x [0, 2] x [0, 1].  An element's direction is read only   *)
(* by the comparison b != self, so the elements all point to +X: the input *)
(* holds self itself when self does, and its twin of another direction     *)
(* when self points elsewhere.                                             *)
(***************************************************************************)
FrontSelves == BlocksIn(FrontLen, 2, 1)

FrontPool == { b \in FrontSelves : b.direction = XP }

SeqsUpTo(S, n) == UNION { [1..k -> S] : k \in 0..n }

InitFront ==
    /\ op = "init"
    /\ self_block \in { Some(b) : b \in FrontSelves }
    /\ all_blocks \in SeqsUpTo(FrontPool, MaxAll)
    /\ in_front = <<>>
    /\ nearest = None
    /\ static_block = None
    /\ moved = None
    /\ GenIdle
    /\ PruneIdle
    /\ GameIdle

\* let in_front = self.get_blocks_in_front(all_blocks.iter().cloned())
GetBlocksInFront ==
    /\ op = "init"
    /\ in_front' = get_blocks_in_front(unwrap(self_block), all_blocks)
    /\ op' = "get_blocks_in_front"
    /\ UNCHANGED <<moveVars, all_blocks, nearest, genVars, pruneVars, gameVars>>

\* let nearest = self.get_nearest_block_in_front(all_blocks.iter().cloned())
GetNearestBlockInFront ==
    /\ op = "init"
    /\ nearest' = get_nearest_block_in_front(unwrap(self_block), all_blocks)
    /\ op' = "get_nearest_block_in_front"
    /\ UNCHANGED <<moveVars, all_blocks, in_front, genVars, pruneVars, gameVars>>

NextFront == GetBlocksInFront \/ GetNearestBlockInFront

SpecFront == InitFront /\ [][NextFront]_vars

(***************************************************************************)
(* SpecGen: generate_level(side_len) up to the flattened leaves, for every *)
(* side_len in 1..MaxSide and every outcome of the random choices.  The    *)
(* recursion of gen_tree is run depth first with an explicit stack, the    *)
(* low sub-seed before the high one; flatten_tree_rec visits the tree in   *)
(* the same order, so each leaf is pushed to acc when its call returns.    *)
(* Of acc the model keeps the leaf just pushed and the bag of unit cells   *)
(* of all leaves pushed so far.                                            *)
(***************************************************************************)
\* the unit cells (named by their low corner) of the box from mn to mx
CellsOf(mn, mx) ==
    { <<cx, cy, cz>> : cx \in mn.x..(mx.x - 1), cy \in mn.y..(mx.y - 1),
                       cz \in mn.z..(mx.z - 1) }

\* let seed = Seed { x: (0, len), y: (0, len), z: (0, len) }
InitGen ==
    /\ op = "init"
    /\ side_len \in 1..MaxSide
    /\ stack = << MkSeed(<<0, side_len>>, <<0, side_len>>, <<0, side_len>>) >>
    /\ leaf = None
    /\ covered = EmptyBag
    /\ fatal = FALSE
    /\ MoveIdle
    /\ FrontIdle
    /\ GameIdle
    /\ PruneIdle

\* one call of gen_tree, on the seed on top of the stack
GenTree ==
    /\ stack # <<>>
    /\ ~fatal
    /\ \E r \in gen_tree_outcomes(Head(stack)) :
         CASE r.kind = "leaf" ->
                /\ stack' = Tail(stack)
                /\ leaf' = Some(r.leaf)
                /\ covered' = covered (+) SetToBag(CellsOf(r.leaf.min, r.leaf.max))
                /\ fatal' = fatal
           [] r.kind = "node" ->
                /\ stack' = <<r.low, r.high>> \o Tail(stack)
                /\ leaf' = None
                /\ UNCHANGED <<covered, fatal>>
           [] r.kind = "panic" ->
                /\ fatal' = TRUE
                /\ leaf' = None
                /\ UNCHANGED <<stack, covered>>
    /\ op' = "gen_tree"
    /\ UNCHANGED <<side_len, moveVars, frontVars, gameVars, pruneVars>>

NextGen == GenTree

SpecGen == InitGen /\ [][NextGen]_vars

(***************************************************************************)
(* main.rs: the level on screen                                            *)
(***************************************************************************)
add(u, v) == Vec(u.x + v.x, u.y + v.y, u.z + v.z)

\* faulty variant: the displacement of the frame is lost
scale_zero(k, v) == Vec(0, 0, 0)

scale(k, v) == Vec(k * v.x, k * v.y, k * v.z)

\* Level::center in half-units: 2 * midpoint(lower, upper) = lower + upper,
\* which for a level of no block is Vec3::MAX + Vec3::MIN = 0
center(level) ==
    IF level = <<>> THEN Vec(0, 0, 0)
    ELSE LET lu == bounds(level) IN add(lu[1], lu[2])

\* the blocks of the lane [0, side] x [0, 1] x [0, 1]: unit blocks and dominoes
\* along X, of any direction
LaneBlocks(side) == BlocksIn(side, 1, 1)

\* the directions drawn for the blocks of the levels played: along the lane
\* both ways, and across it
LaneDirections == {XP, XN, YP}

\* what flatten_tree and gblocks_to_blocks return for the trees that fill
\* at most k leaves, all of them in the lane between x = lo and x = hi and
\* of a direction of LaneDirections: the filled leaves by ascending x
RECURSIVE LaneLeaves(_, _, _)
LaneLeaves(lo, hi, k) ==
    {<<>>} \cup
    (IF k = 0 THEN {}
     ELSE UNION { { <<b>> \o rest : rest \in LaneLeaves(b.max.x, hi, k - 1) } :
                  b \in { c \in LaneBlocks(hi) :
                           c.min.x >= lo /\ c.direction \in LaneDirections } })

\* generate_level, as the set of levels it returns for the lane trees
generate_level(len) ==
    { remove_locked(leaves) : leaves \in LaneLeaves(0, len, MaxBlocks) }

\* draw_blocks: one entity per block, numbered in the order of the level
draw_blocks(level) ==
    LET c == center(level)
    IN  [ ents        |-> 1..Len(level),
          block       |-> [e \in 1..Len(level) |-> level[e]],
          translation |-> [e \in 1..Len(level) |-> sub(get_center(level[e]), c)],
          move_dest   |-> [e \in 1..Len(level) |-> None],
          level_center |-> c ]

\* send_block_on_click: pos_opt, should_despawn and new_block
pos_opt(b, near) == IF is_none(near) THEN None ELSE move_block(b, unwrap(near))

should_despawn(p) == is_none(p)

new_block(b, p) == IF is_none(p) THEN get_flyaway_block_position(b) ELSE unwrap(p)

MoveDest(d, despawn) == [dest |-> d, should_despawn |-> despawn]

Buttons == {"Primary", "Middle", "Secondary"}

\* the entities the query of send_block_on_click matches: Without<MoveDest>
Resting == { e \in ents : is_none(move_dest[e]) }

\* the orders in which a query may iterate over the entities of S
Orders(S) ==
    { f \in [1..Cardinality(S) -> S] : \A i, j \in DOMAIN f : i # j => f[i] # f[j] }

\* 16.0 * time.delta_secs() in half-units, for a short frame and for a long one
ShortFrame == 16

LongFrame == 64

FrameSteps == {ShortFrame, LongFrame}

U8_MAX == 255

(***************************************************************************)
(* SpecGame: the game from the first menu on, for the levels 1..MaxLevel   *)
(* and the lane levels of at most MaxBlocks blocks.                        *)
(***************************************************************************)
HandlerIdle ==
    /\ self_block = None /\ static_block = None /\ moved = None
    /\ all_blocks = <<>> /\ in_front = <<>> /\ nearest = None /\ click = None

\* main: insert_resource(CurrentLevel(1)), init_state::<Interface>()
InitGame ==
    /\ op = "init"
    /\ interface = "Menu"
    /\ current_level = 1
    /\ level_center = Vec(0, 0, 0)
    /\ ents = {} /\ block = <<>> /\ translation = <<>> /\ move_dest = <<>>
    /\ crashed = FALSE
    /\ HandlerIdle
    /\ GenIdle
    /\ PruneIdle

\* button_system on a pressed button, then setup_level on entering Gameplay
ButtonSystem ==
    /\ interface = "Menu"
    /\ ~crashed
    /\ (current_level <= MaxLevel \/ current_level + 2 > U8_MAX)
    /\ IF current_level + 2 > U8_MAX
       THEN \* the addition overflows: a panic, or a wrapped width
            /\ crashed' = TRUE
            /\ UNCHANGED <<interface, level_center, ents, block, translation, move_dest>>
       ELSE \E level \in generate_level(current_level + 2) :
              LET drawn == draw_blocks(level)
              IN  /\ ents' = drawn.ents
                  /\ block' = drawn.block
                  /\ translation' = drawn.translation
                  /\ move_dest' = drawn.move_dest
                  /\ level_center' = drawn.level_center
                  /\ interface' = "Gameplay"
                  /\ crashed' = crashed
    /\ op' = "button_system"
    /\ UNCHANGED <<current_level, moveVars, frontVars, click, genVars, pruneVars>>

\* send_block_on_click for a click of some button on the entity of some block
SendBlockOnClick ==
    /\ ~crashed
    /\ \E e \in ents, button \in Buttons, order \in Orders(Resting) :
         LET snapshot == [i \in DOMAIN order |-> block[order[i]]]
         IN  /\ click' = Some([target |-> e, button |-> button])
             /\ all_blocks' = snapshot
             /\ IF ~is_none(move_dest[e])
                THEN \* transforms.get_mut(click.target()).unwrap() panics
                     /\ crashed' = TRUE
                     /\ self_block' = None /\ nearest' = None /\ moved' = None
                     /\ UNCHANGED <<block, move_dest>>
                ELSE IF button = "Primary"
                THEN LET b    == block[e]
                         near == get_nearest_block_in_front(b, snapshot)
                         p    == pos_opt(b, near)
                         nb   == new_block(b, p)
                     IN  /\ self_block' = Some(b)
                         /\ nearest' = near
                         /\ moved' = p
                         /\ IF nb # b
                            THEN /\ move_dest' = [move_dest EXCEPT ![e] =
                                        Some(MoveDest(sub(get_center(nb), level_center),
                                                      should_despawn(p)))]
                                 /\ block' = [block EXCEPT ![e] = nb]
                            ELSE UNCHANGED <<block, move_dest>>
                         /\ crashed' = crashed
                ELSE /\ self_block' = Some(block[e])
                     /\ nearest' = None /\ moved' = None
                     /\ UNCHANGED <<block, move_dest, crashed>>
    /\ op' = "send_block_on_click"
    /\ UNCHANGED <<interface, current_level, level_center, ents, translation,
                   static_block, in_front, genVars, pruneVars>>

\* one frame of Update during Gameplay: animate_moving_blocks and
\* finish_level_if_done, whose commands are applied after both have run
UpdateFrame ==
    /\ interface = "Gameplay"
    /\ ~crashed
    /\ \E step \in FrameSteps :
         LET moving             == ents \ Resting
             movement_dir(e)    == unit_vector(block[e].direction)
             new_translation(e) == add(translation[e], scale(step, movement_dir(e)))
             diff(e)            == sub(unwrap(move_dest[e]).dest, new_translation(e))
             should_stop(e)     == dot(movement_dir(e), diff(e)) < 0
             despawned          == { e \in moving :
                                       should_stop(e) /\ unwrap(move_dest[e]).should_despawn }
             left               == ents \ despawned
         IN  /\ ents' = left
             /\ block' = [e \in left |-> block[e]]
             /\ translation' =
                    [e \in left |->
                        IF e \notin moving THEN translation[e]
                        ELSE IF should_stop(e) THEN unwrap(move_dest[e]).dest
                        ELSE new_translation(e)]
             /\ move_dest' =
                    [e \in left |->
                        IF e \in moving /\ should_stop(e) THEN None ELSE move_dest[e]]
    /\ IF ents = {}
       THEN IF current_level + 1 > U8_MAX
            THEN crashed' = TRUE /\ UNCHANGED <<current_level, interface>>
            ELSE /\ current_level' = current_level + 1
                 /\ interface' = "Menu"
                 /\ crashed' = crashed
       ELSE UNCHANGED <<current_level, interface, crashed>>
    /\ self_block' = None /\ moved' = None /\ all_blocks' = <<>>
    /\ nearest' = None /\ click' = None
    /\ op' = "update"
    /\ UNCHANGED <<level_center, static_block, in_front, genVars, pruneVars>>

NextGame == ButtonSystem \/ SendBlockOnClick \/ UpdateFrame

SpecGame == InitGame /\ [][NextGame]_vars

(***************************************************************************)
(* SpecFly: the game from the start of any of the levels 1..MaxFlyLevel,   *)
(* on a level of one block of the lane.                                    *)
(***************************************************************************)
InitFly ==
    /\ op = "init"
    /\ interface = "Gameplay"
    /\ current_level \in 1..MaxFlyLevel
    /\ \E b \in LaneBlocks(current_level + 2) :
         LET drawn == draw_blocks(remove_locked(<<b>>))
         IN  /\ ents = drawn.ents
             /\ block = drawn.block
             /\ translation = drawn.translation
             /\ move_dest = drawn.move_dest
             /\ level_center = drawn.level_center
    /\ crashed = FALSE
    /\ HandlerIdle
    /\ GenIdle
    /\ PruneIdle

NextFly == SendBlockOnClick \/ UpdateFrame

SpecFly == InitFly /\ [][NextFly]_vars

(***************************************************************************)
(* Claims about the generator (SpecGen)                                    *)
(***************************************************************************)
\* the extents of a leaf on the three axes
LeafExtents(g) == << g.max.x - g.min.x, g.max.y - g.min.y, g.max.z - g.min.z >>

\* C2: for every side length and every outcome of the random choices, each
\* leaf of gen_tree, filled or empty, has extents (1,1,1) or exactly one
\* extent 2 and the other two 1; no extent is <= 0 or > 2.
C2_LeafExtents ==
    ~is_none(leaf) =>
        LET e == LeafExtents(unwrap(leaf))
        IN  /\ \A i \in 1..3 : e[i] \in {1, 2}
            /\ Cardinality({ i \in 1..3 : e[i] = 2 }) <= 1

\* C2 witness: in a cube of side 3 a call returned a filled domino
C2_Witness ==
    /\ side_len = 3
    /\ ~is_none(leaf)
    /\ ~is_none(unwrap(leaf).direction)
    /\ LeafExtents(unwrap(leaf)) = <<1, 2, 1>>

\* the unit cells of the seed cube of generate_level
CubeCells == CellsOf(Vec(0, 0, 0), Vec(side_len, side_len, side_len))

\* C3: the leaves flattened before filtering tile the cube [0, n)^3: every
\* leaf, when it is pushed, lies inside the cube and holds no cell that an
\* earlier leaf holds, and once the recursion has ended every cell of the
\* cube lies in exactly one leaf.
C3_LeavesTileCube ==
    /\ ~is_none(leaf) =>
          \A c \in CellsOf(unwrap(leaf).min, unwrap(leaf).max) :
              c \in CubeCells /\ CopiesIn(c, covered) = 1
    /\ (op = "gen_tree" /\ stack = <<>>) => covered = SetToBag(CubeCells)

\* C3 witness: the recursion on a cube of side 3 has ended, its last leaf a
\* domino, and the 27 cells are covered
C3_Witness ==
    /\ side_len = 3
    /\ op = "gen_tree"
    /\ stack = <<>>
    /\ ~is_none(leaf)
    /\ LeafExtents(unwrap(leaf)) = <<2, 1, 1>>
    /\ BagCardinality(covered) = 27

(***************************************************************************)
(* Claims about move_block (SpecMove)                                      *)
(***************************************************************************)
\* extent of block b on axis ax
Extent(b, ax) == vec3_component(ax, b.max) - vec3_component(ax, b.min)

\* b is a domino whose long axis is its travel axis
ElongatedAlongTravel(b) ==
    /\ Extent(b, b.direction.axis) = 2
    /\ \A a \in Axis \ {b.direction.axis} : Extent(b, a) = 1

\* the projections of b and o on the plane orthogonal to axis ax share area
ProjectionsOverlap(b, o, ax) ==
    \A a \in Axis \ {ax} :
        imax(vec3_component(a, b.min), vec3_component(a, o.min))
          < imin(vec3_component(a, b.max), vec3_component(a, o.max))

\* C4: whenever move_block(b, o) returns a block, its leading face touches o's
\* facing face on b's travel axis: for a positive direction new max = o.min and
\* new min = o.min - L, for a negative one new min = o.max and new max =
\* o.max + L, with L = 2 if b is elongated along its travel axis, else 1.
C4_LeadingFaceTouches ==
    (op = "move_block" /\ ~is_none(moved)) =>
        LET b  == unwrap(self_block)
            o  == unwrap(static_block)
            r  == unwrap(moved)
            ax == b.direction.axis
            L  == IF ElongatedAlongTravel(b) THEN 2 ELSE 1
        IN  IF b.direction.positive
            THEN /\ vec3_component(ax, r.max) = vec3_component(ax, o.min)
                 /\ vec3_component(ax, r.min) = vec3_component(ax, o.min) - L
            ELSE /\ vec3_component(ax, r.min) = vec3_component(ax, o.max)
                 /\ vec3_component(ax, r.max) = vec3_component(ax, o.max) + L

\* C4 witness: a domino travelling along its long axis was slid across a gap
\* up to an obstacle
C4_Witness ==
    /\ op = "move_block"
    /\ ~is_none(moved)
    /\ ElongatedAlongTravel(unwrap(self_block))
    /\ unwrap(moved) # unwrap(self_block)
    /\ unwrap(self_block).direction = XP
    /\ unwrap(moved).max.x = unwrap(static_block).min.x

\* C5: move_block returns None unless o is ahead of b on b's travel axis, that
\* is unless b.max <= o.min for a positive direction and unless b.min >= o.max
\* for a negative one; so a position it returns is not behind b's own.
C5_NoneUnlessAhead ==
    (op = "move_block" /\ ~is_none(moved)) =>
        LET b  == unwrap(self_block)
            o  == unwrap(static_block)
            r  == unwrap(moved)
            ax == b.direction.axis
        IN  IF b.direction.positive
            THEN /\ vec3_component(ax, b.max) <= vec3_component(ax, o.min)
                 /\ vec3_component(ax, r.min) >= vec3_component(ax, b.min)
            ELSE /\ vec3_component(ax, b.min) >= vec3_component(ax, o.max)
                 /\ vec3_component(ax, r.max) <= vec3_component(ax, b.max)

\* C6: if the projections of b and o on the plane orthogonal to b's travel
\* axis do not share area, move_block(b, o) returns None.
C6_NoOverlapNoMove ==
    (op = "move_block"
       /\ ~ProjectionsOverlap(unwrap(self_block), unwrap(static_block),
                              unwrap(self_block).direction.axis))
        => is_none(moved)

\* C6 witness: the obstacle lies ahead of b on the travel axis, in a lane that
\* only touches b's lane, and move_block returned None
C6_Witness ==
    /\ op = "move_block"
    /\ is_none(moved)
    /\ unwrap(self_block).direction = YP
    /\ unwrap(self_block).max.y <= unwrap(static_block).min.y
    /\ unwrap(self_block).max.x = unwrap(static_block).min.x
    /\ ~ProjectionsOverlap(unwrap(self_block), unwrap(static_block), "Y")

(***************************************************************************)
(* Claims about the obstacle search (SpecFront)                            *)
(***************************************************************************)
\* how far, in half-units, the centre of o lies ahead of the centre of b along
\* b's direction (negative: behind)
AheadBy(b, o) ==
    LET ax == b.direction.axis
        cb == vec3_component(ax, b.min) + vec3_component(ax, b.max)
        co == vec3_component(ax, o.min) + vec3_component(ax, o.max)
    IN  IF b.direction.positive THEN co - cb ELSE cb - co

\* C7: get_blocks_in_front(b, all) never contains a block equal to b and never
\* a block whose centre is less than one unit ahead of b's centre along b's
\* direction.
C7_IrreflexiveForwardOnly ==
    (op = "get_blocks_in_front") =>
        \A i \in 1..Len(in_front) :
            /\ in_front[i] # unwrap(self_block)
            /\ AheadBy(unwrap(self_block), in_front[i]) >= 2

\* C7 witness: the input held b itself and a block behind b; neither was
\* returned
C7_Witness ==
    /\ op = "get_blocks_in_front"
    /\ Len(all_blocks) = 2
    /\ all_blocks[1] = unwrap(self_block)
    /\ AheadBy(unwrap(self_block), all_blocks[2]) <= -2
    /\ ProjectionsOverlap(unwrap(self_block), all_blocks[2], unwrap(self_block).direction.axis)
    /\ in_front = <<>>

\* the positions of the input that are in front of self
FrontIndices == { i \in 1..Len(all_blocks) : possible_collision(unwrap(self_block), all_blocks[i]) }

\* the forward centre distance truncated toward zero
TruncatedDistance(b, o) ==
    LET h == AheadBy(b, o) IN IF h >= 0 THEN h \div 2 ELSE -((-h) \div 2)

\* C8: get_nearest_block_in_front returns None exactly when no input block is
\* in front of b; otherwise it returns the block in front of minimal truncated
\* forward distance, the first in input order among those of equal distance.
C8_NearestFirstMinimum ==
    (op = "get_nearest_block_in_front") =>
        /\ is_none(nearest) <=> (FrontIndices = {})
        /\ ~is_none(nearest) =>
             \E i \in FrontIndices :
                /\ all_blocks[i] = unwrap(nearest)
                /\ \A j \in FrontIndices :
                     LET di == TruncatedDistance(unwrap(self_block), all_blocks[i])
                         dj == TruncatedDistance(unwrap(self_block), all_blocks[j])
                     IN  dj > di \/ (dj = di /\ j >= i)

\* C8 witness: two different blocks in front at equal truncated distance; the
\* first was returned
C8_Witness ==
    /\ op = "get_nearest_block_in_front"
    /\ Len(all_blocks) = 2
    /\ FrontIndices = {1, 2}
    /\ all_blocks[1] # all_blocks[2]
    /\ TruncatedDistance(unwrap(self_block), all_blocks[1])
         = TruncatedDistance(unwrap(self_block), all_blocks[2])
    /\ nearest = Some(all_blocks[1])

(***************************************************************************)
(* Claims about the clicks (SpecGame, SpecFly)                             *)
(***************************************************************************)
\* the state is the one send_block_on_click has left after running to its end
\* on a primary click
ClickedPrimary ==
    /\ op = "send_block_on_click"
    /\ ~crashed
    /\ ~is_none(click)
    /\ unwrap(click).button = "Primary"

DestOf(b) == sub(get_center(b), level_center)

\* C1: after a primary click on a resting block b, with obstacle the result
\* of get_nearest_block_in_front on the blocks the handler read and position
\* the result of move_block against it: if there is a position, b has taken it
\* and its MoveDest is not flagged for removal, or, the position being b's own,
\* b is unchanged and has no MoveDest; if there is no obstacle or no position,
\* b has its fly-away geometry and a MoveDest flagged for removal.
C1_MoveProtocol ==
    ClickedPrimary =>
        LET e        == unwrap(click).target
            b        == unwrap(self_block)
            obstacle == get_nearest_block_in_front(b, all_blocks)
            position == IF is_none(obstacle) THEN None
                        ELSE move_block(b, unwrap(obstacle))
            flyaway  == get_flyaway_block_position(b)
        IN  IF ~is_none(position)
            THEN IF unwrap(position) = b
                 THEN block[e] = b /\ is_none(move_dest[e])
                 ELSE /\ block[e] = unwrap(position)
                      /\ move_dest[e] = Some(MoveDest(DestOf(unwrap(position)), FALSE))
            ELSE /\ block[e] = flyaway
                 /\ move_dest[e] = Some(MoveDest(DestOf(flyaway), TRUE))

\* the two boxes share a cell
Overlap(a, b) ==
    \A axis \in Axis :
        /\ vec3_component(axis, a.min) < vec3_component(axis, b.max)
        /\ vec3_component(axis, b.min) < vec3_component(axis, a.max)

\* the blocks the handler read hold that of every other entity of the level
ReadsLiveSet(e) ==
    \A o \in ents \ {e} : \E i \in DOMAIN all_blocks : all_blocks[i] = block[o]

\* the clicked block's geometry shares no cell with that of a block in motion
ClearOfMoving(e) ==
    \A o \in ents \ {e} : ~is_none(move_dest[o]) => ~Overlap(block[e], block[o])

\* C9: a primary click is resolved against every block of the level, those
\* in motion included, and the position it gives the clicked block overlaps
\* the destination geometry of no block in motion.
C9_ResolvedAgainstLiveSet ==
    ClickedPrimary =>
        /\ ReadsLiveSet(unwrap(click).target)
        /\ ClearOfMoving(unwrap(click).target)

\* the box lies outside [0, side)^3
OutsideVolume(b, side) ==
    \E axis \in Axis :
        \/ vec3_component(axis, b.max) <= 0
        \/ vec3_component(axis, b.min) >= side

\* C10: for each block of a level of side current_level + 2, the fly-away
\* position lies outside [0, side)^3, is displaced from the block along its
\* direction, and has the block's size and its coordinates on the two other
\* axes.
C10_FlyawayLeavesVolume ==
    interface = "Gameplay" =>
        \A e \in Resting :
            LET b   == block[e]
                f   == get_flyaway_block_position(b)
                ax  == b.direction.axis
            IN  /\ OutsideVolume(f, current_level + 2)
                /\ sign(b.direction) *
                       (vec3_component(ax, f.min) - vec3_component(ax, b.min)) > 0
                /\ get_isize(f) = get_isize(b)
                /\ \A a \in Axis \ {ax} :
                       /\ vec3_component(a, f.min) = vec3_component(a, b.min)
                       /\ vec3_component(a, f.max) = vec3_component(a, b.max)

(***************************************************************************)
(* SpecLock: locked_blocks_to_remove applied to every line of at most      *)
(* MaxLine unit blocks, the k-th block of a line in the k-th cell of a     *)
(* lane, each with any of the six directions.                              *)
(***************************************************************************)
LineBlock(k, d) == MkBlock(d, Vec(k - 1, 0, 0), Vec(k, 1, 1))

Lines ==
    UNION { { [k \in 1..n |-> LineBlock(k, ds[k])] : ds \in [1..n -> Directions] } :
            n \in 0..MaxLine }

InitLock ==
    /\ op = "init"
    /\ line_of_blocks \in Lines
    /\ to_remove = <<>>
    /\ blocks = <<>> /\ scan = <<>> /\ cell = None /\ pass = 0
    /\ MoveIdle
    /\ FrontIdle
    /\ GenIdle
    /\ GameIdle

\* let to_remove = locked_blocks_to_remove(line_of_blocks.as_slice())
LockedBlocksToRemove ==
    /\ op = "init"
    /\ to_remove' = locked_blocks_to_remove(line_of_blocks)
    /\ op' = "locked_blocks_to_remove"
    /\ UNCHANGED <<line_of_blocks, blocks, scan, cell, pass,
                   moveVars, frontVars, genVars, gameVars>>

NextLock == LockedBlocksToRemove

SpecLock == InitLock /\ [][NextLock]_vars

(***************************************************************************)
(* Claims about locked_blocks_to_remove (SpecLock)                         *)
(***************************************************************************)
\* the i-th block of the line has a positive / a negative direction
Pos(i) == line_of_blocks[i].direction.positive

Neg(i) == ~line_of_blocks[i].direction.positive

LineIndices == 1..Len(line_of_blocks)

\* some negative block of the line comes after some positive block
NegativeAfterPositive == \E i, j \in LineIndices : i < j /\ Pos(i) /\ Neg(j)

\* the sub-sequence of the line at the indices of I, in line order
RECURSIVE SubLine(_, _)
SubLine(I, k) ==
    IF k > Len(line_of_blocks) THEN <<>>
    ELSE (IF k \in I THEN <<line_of_blocks[k]>> ELSE <<>>) \o SubLine(I, k + 1)

\* C11: for a line with no negative block after any positive block (only
\* positive blocks, only negative blocks, negative blocks followed only by
\* positive blocks, the empty line) locked_blocks_to_remove returns an empty
\* removal set.
C11_NoLockNoRemoval ==
    (op = "locked_blocks_to_remove" /\ ~NegativeAfterPositive) => to_remove = <<>>

\* C11 witness: a line of two negative blocks followed by two positive blocks
\* gave an empty removal set
C11_Witness ==
    /\ op = "locked_blocks_to_remove"
    /\ Len(line_of_blocks) = 4
    /\ Neg(1) /\ Neg(2) /\ Pos(3) /\ Pos(4)
    /\ to_remove = <<>>

\* the indices the scan puts into backward: the negative blocks after the
\* first positive block
BackwardIndices ==
    { j \in LineIndices : Neg(j) /\ \E i \in 1..(j - 1) : Pos(i) }

\* the indices the scan puts into forward: the positive blocks before the
\* first index of BackwardIndices
ForwardIndices ==
    { i \in LineIndices : Pos(i) /\ \A j \in BackwardIndices : i < j }

\* C12: when both lists are non-empty, locked_blocks_to_remove returns the
\* forward blocks followed by the backward blocks, each group in line order,
\* backward being every negative block after the first positive block.
C12_ForwardThenBackward ==
    (op = "locked_blocks_to_remove" /\ ForwardIndices # {} /\ BackwardIndices # {}) =>
        to_remove = SubLine(ForwardIndices, 1) \o SubLine(BackwardIndices, 1)

\* C12 witness: the line [+, -, +, -] gave [block 1, block 2, block 4]
C12_Witness ==
    /\ op = "locked_blocks_to_remove"
    /\ Len(line_of_blocks) = 4
    /\ Pos(1) /\ Neg(2) /\ Pos(3) /\ Neg(4)
    /\ to_remove = <<line_of_blocks[1], line_of_blocks[2], line_of_blocks[4]>>

\* C13, as the claim has it: a positive block preceded anywhere on the line
\* by a negative block is never reported.
C13_PositiveAfterNegativeKept ==
    op = "locked_blocks_to_remove" =>
        \A i \in LineIndices :
            (Pos(i) /\ \E j \in 1..(i - 1) : Neg(j)) =>
                \A k \in DOMAIN to_remove : to_remove[k] # line_of_blocks[i]

\* C13, amended: a positive block is reported exactly when the removal set
\* is not empty and no negative block lies between the first positive block
\* of the line and it; negative blocks ahead of every positive block do not
\* count.
C13_PositiveUntilBackward ==
    op = "locked_blocks_to_remove" =>
        \A i \in LineIndices :
            Pos(i) =>
                ((\E k \in DOMAIN to_remove : to_remove[k] = line_of_blocks[i])
                   <=> (/\ NegativeAfterPositive
                        /\ ~\E p, j \in 1..(i - 1) : p < j /\ Pos(p) /\ Neg(j)))

\* C13 witness: on the line [-, +, -] the positive block, which follows a
\* negative block, was reported
C13_Witness ==
    /\ op = "locked_blocks_to_remove"
    /\ Len(line_of_blocks) = 3
    /\ Neg(1) /\ Pos(2) /\ Neg(3)
    /\ to_remove = <<line_of_blocks[2], line_of_blocks[3]>>

(***************************************************************************)
(* SpecPrune: remove_locked run on a generated level, one iteration of its *)
(* inner loop at a time, and then run once more on its own result.         *)
(***************************************************************************)
PlaneX == 3

PlaneY == 2

MaxFilled == 3

MaxPass == 2

\* a sub-seed of the cube of generate_level: the cube is first split along Z
\* at 1 and its bottom layer along Y, and no leaf outside this seed is filled
PlaneSeed == MkSeed(<<0, PlaneX>>, <<0, PlaneY>>, <<0, 1>>)

PruneDirections == {XP, XN, YP, YN}

\* let mut blocks = gblocks_to_blocks(gblocks.as_slice()), for the trees that
\* fill at most k leaves
PlaneLevels(k) == gen_blocks(PlaneSeed, k, PruneDirections)

\* the number of values of the range lo..hi
range_len(lo, hi) == IF hi <= lo THEN 0 ELSE hi - lo

\* the iterations "for x in lower_proj.x..upper_proj.x, for y in
\* lower_proj.y..upper_proj.y" of one axis, in the order they run
cells_of_axis(axis, lower, upper) ==
    LET remaining  == remaining_two(axis)
        lower_proj == project(lower, remaining)
        upper_proj == project(upper, remaining)
        nx         == range_len(lower_proj[1], upper_proj[1])
        ny         == range_len(lower_proj[2], upper_proj[2])
    IN  [ i \in 1..(nx * ny) |->
            << axis, lower_proj[1] + ((i - 1) \div ny), lower_proj[2] + ((i - 1) % ny) >> ]

\* the iterations of remove_locked over the three axes
cells_of(level) ==
    LET lu == bounds(level)
    IN  cells_of_axis(ALL[1], lu[1], lu[2]) \o cells_of_axis(ALL[2], lu[1], lu[2])
          \o cells_of_axis(ALL[3], lu[1], lu[2])

InitPrune ==
    /\ op = "gblocks_to_blocks"
    /\ blocks \in PlaneLevels(MaxFilled)
    /\ scan = <<>> /\ cell = None /\ line_of_blocks = <<>> /\ to_remove = <<>>
    /\ pass = 0
    /\ MoveIdle
    /\ FrontIdle
    /\ GenIdle
    /\ GameIdle

\* remove_locked is entered: lower and upper are folded and fix the ranges of
\* the loops
RemoveLocked ==
    /\ op \in {"gblocks_to_blocks", "remove_locked", "cell"}
    /\ scan = <<>>
    /\ pass < MaxPass
    /\ pass' = pass + 1
    /\ scan' = cells_of(blocks)
    /\ op' = "remove_locked"
    /\ UNCHANGED <<blocks, cell, line_of_blocks, to_remove,
                   moveVars, frontVars, genVars, gameVars>>

\* one iteration of the inner loop
RemoveLockedCell ==
    /\ scan # <<>>
    /\ LET c == Head(scan)
           p == << 2 * c[2] + 1, 2 * c[3] + 1 >>
       IN  /\ cell' = Some(c)
           /\ line_of_blocks' = extract_along_line(c[1], p, blocks)
           /\ to_remove' = locked_blocks_to_remove(extract_along_line(c[1], p, blocks))
           /\ blocks' = remove_locked_cell(blocks, c[1], c[2], c[3])
    /\ scan' = Tail(scan)
    /\ op' = "cell"
    /\ UNCHANGED <<pass, moveVars, frontVars, genVars, gameVars>>

NextPrune == RemoveLocked \/ RemoveLockedCell

SpecPrune == InitPrune /\ [][NextPrune]_vars

\* a positive-direction block stands before a negative-direction block
HasPattern(line) ==
    \E i \in DOMAIN line : \E j \in DOMAIN line :
        i < j /\ line[i].direction.positive /\ ~line[j].direction.positive

\* the lines remove_locked would scan in level, over the three axes
LinesOf(level) ==
    { extract_along_line(c[1], << 2 * c[2] + 1, 2 * c[3] + 1 >>, level) :
        c \in Range(cells_of(level)) }

PatternFree(level) == \A l \in LinesOf(level) : ~HasPattern(l)

\* C14: remove_locked is idempotent.  A line without a positive block before
\* a negative one loses nothing; when remove_locked has run, no line of the
\* three axes has such a pattern left; the second run on the result deletes
\* nothing from any line.
C14_RemoveLockedIdempotent ==
    /\ (op = "cell" /\ ~HasPattern(line_of_blocks) => to_remove = <<>>)
    /\ (pass >= 1 /\ scan = <<>> => PatternFree(blocks))
    /\ (pass = 2 /\ op = "cell" => to_remove = <<>>)

\* the second run has scanned all its lines, one of them with blocks of both
\* signs, and the level still has blocks
C14_Witness ==
    /\ pass = 2 /\ op = "cell" /\ scan = <<>>
    /\ Len(blocks) >= 2
    /\ \E i \in DOMAIN blocks : \E j \in DOMAIN blocks :
           blocks[i].direction.positive /\ ~blocks[j].direction.positive

(***************************************************************************)
(* Claims about the run of gen_tree (SpecGen)                              *)
(***************************************************************************)
SeedExtents(seed) ==
    << seed.x[2] - seed.x[1], seed.y[2] - seed.y[1], seed.z[2] - seed.z[1] >>

\* C15: for every side length >= 1 and every outcome of the random choices,
\* generation never panics: every seed gen_tree is called on has a width of at
\* least 1 on each axis, so width is never called with a value <= 0, and the
\* call that runs next can neither reach the arm of unhandled (ones, twos) nor
\* sample an empty range of split points.
C15_NoFatalViolation ==
    /\ ~fatal
    /\ \A i \in DOMAIN stack : \A k \in 1..3 : SeedExtents(stack[i])[k] >= 1
    /\ stack # <<>> => [kind |-> "panic"] \notin gen_tree_outcomes(Head(stack))

\* C15 witness: in a cube of side 3 the calls made so far left a seed of
\* extents (1, 3, 1) to be split at one of two sampled interior points
C15_Witness ==
    /\ side_len = 3
    /\ op = "gen_tree"
    /\ ~fatal
    /\ \E i \in DOMAIN stack :
          /\ SeedExtents(stack[i]) = <<1, 3, 1>>
          /\ Cardinality(interior_points(stack[i], "Y")) = 2

(***************************************************************************)
(* SpecGenerate: the two stages of generate_level under the fairness of a  *)
(* sequential program, which runs its next step as long as it has one: the *)
(* calls of gen_tree from the seed cube, and remove_locked from the blocks *)
(* of a generated tree.                                                    *)
(***************************************************************************)
MaxFairFilled == 2

InitGenerate == InitGen \/ (InitPrune /\ Len(blocks) <= MaxFairFilled)

NextGenerate == NextGen \/ NextPrune

SpecGenerate ==
    InitGenerate /\ [][NextGenerate]_vars /\ WF_vars(NextGen) /\ WF_vars(NextPrune)

Volume(seed) == SeedExtents(seed)[1] * SeedExtents(seed)[2] * SeedExtents(seed)[3]

\* a call of gen_tree either returns a leaf or recurses on two seeds, each of
\* a volume of at least 1 and smaller than its own; an iteration of the loops
\* of remove_locked leaves one iteration less to run
C16_Step ==
    /\ stack' # stack =>
          \/ stack' = Tail(stack)
          \/ /\ Len(stack') = Len(stack) + 1
             /\ \A i \in 1..2 : /\ Volume(stack'[i]) >= 1
                                /\ Volume(stack'[i]) < Volume(Head(stack))
    /\ (scan # <<>> /\ op' = "cell") => scan' = Tail(scan)

\* the recursion has returned, or the loops of remove_locked have ended
C16_Done ==
    IF side_len >= 1 THEN op = "gen_tree" /\ stack = <<>> /\ ~fatal
    ELSE pass >= 1 /\ scan = <<>>

\* C16: generate_level terminates for every side length >= 1 and every
\* outcome of the random choices: every recursive call of gen_tree is on a
\* seed of strictly smaller volume than its parent, the recursion ends in
\* leaves, and the pruning pass completes.
C16_GenerateLevelTerminates == [][C16_Step]_vars /\ <>C16_Done

\* C16 witness: the recursion on a cube of side 3 has returned, its last leaf
\* a domino along Z
C16_Witness ==
    /\ side_len = 3
    /\ op = "gen_tree"
    /\ stack = <<>>
    /\ ~is_none(leaf)
    /\ LeafExtents(unwrap(leaf)) = <<1, 1, 2>>

(***************************************************************************)
(* Claims about the agreement of the obstacle search and move_block        *)
(* (SpecMove)                                                              *)
(***************************************************************************)
\* o lies ahead of b on b's travel axis: beyond b's leading face
LiesAhead(b, o) ==
    LET ax == b.direction.axis
    IN  IF b.direction.positive
        THEN vec3_component(ax, o.min) >= vec3_component(ax, b.max)
        ELSE vec3_component(ax, o.max) <= vec3_component(ax, b.min)

\* C18: for valid-shaped blocks b and o that do not overlap,
\* possible_collision(b, o) holds exactly when o lies ahead of b on b's travel
\* axis and check_overlap_in_direction(b, o, b's direction) holds.
C18_SearchAgreesWithMove ==
    (op = "move_block" /\ ~Overlap(unwrap(self_block), unwrap(static_block))) =>
        LET b == unwrap(self_block)
            o == unwrap(static_block)
        IN  possible_collision(b, o)
              <=> (LiesAhead(b, o) /\ check_overlap_in_direction(b, o, b.direction))

(***************************************************************************)
(* SpecSlide: the level of side SlideSide played by primary, middle or     *)
(* secondary clicks, each made when the animation of the click before it   *)
(* has ended.                                                              *)
(***************************************************************************)
SlideSide == 3

\* the bottom layer of the cube: the cube is first split along Z at 1, and no
\* leaf above this layer is filled
SlideSeed == MkSeed(<<0, SlideSide>>, <<0, SlideSide>>, <<0, 1>>)

\* the direction drawn for every filled leaf of the levels played
SlideDirections == {XN}

\* generate_level(SlideSide), for the trees that fill at most k leaves
SlideLevels(k) ==
    { remove_locked(leaves) : leaves \in gen_blocks(SlideSeed, k, SlideDirections) }

InitSlide ==
    /\ op = "init"
    /\ interface = "Gameplay"
    /\ current_level = SlideSide - 2
    /\ \E level \in SlideLevels(MaxBlocks) :
         LET drawn == draw_blocks(level)
         IN  /\ ents = drawn.ents
             /\ block = drawn.block
             /\ translation = drawn.translation
             /\ move_dest = drawn.move_dest
             /\ level_center = drawn.level_center
    /\ crashed = FALSE
    /\ HandlerIdle
    /\ GenIdle
    /\ PruneIdle

\* a click made when no block carries MoveDest
ResolvedClick == Resting = ents /\ SendBlockOnClick

NextSlide == ResolvedClick \/ UpdateFrame

SpecSlide == InitSlide /\ [][NextSlide]_vars

\* C17: from any level of generate_level, after any sequence of clicks each
\* resolved before the next, no two blocks that remain in the level overlap.
C17_NoOverlapAfterClicks ==
    Resting = ents =>
        \A e \in ents : \A o \in ents \ {e} : ~Overlap(block[e], block[o])

(***************************************************************************)
(* Claims about the lines remove_locked scans (SpecPrune)                  *)
(***************************************************************************)
\* the axis of the iteration run last
ScanAxis == unwrap(cell)[1]

\* the i-th block of the line slides along axis and faces a block of the
\* line that slides along axis the opposite way
LockedOnLine(line, i, axis) ==
    /\ line[i].direction.axis = axis
    /\ IF line[i].direction.positive
       THEN \E j \in DOMAIN line :
              j > i /\ line[j].direction.axis = axis /\ ~line[j].direction.positive
       ELSE \E j \in DOMAIN line :
              j < i /\ line[j].direction.axis = axis /\ line[j].direction.positive

\* C19: every block remove_locked deletes while it scans a line along an axis
\* A slides along A and faces, on that line, a block that slides along A the
\* opposite way; a block whose slide axis differs from A is not deleted in
\* the pass of A.
C19_DeletedAreLockedAlongAxis ==
    op = "cell" =>
        \A i \in DOMAIN line_of_blocks :
            line_of_blocks[i] \in Range(to_remove)
                => LockedOnLine(line_of_blocks, i, ScanAxis)

\* the blocks of the line follow one another along axis
Ascending(line, axis) ==
    \A i \in DOMAIN line : \A j \in DOMAIN line :
        i < j => vec3_component(axis, line[i].max) <= vec3_component(axis, line[j].min)

\* C20: for a generated level, at every stage of pruning, the sequence
\* extract_along_line passes to locked_blocks_to_remove for a line along an
\* axis A lists the blocks of the line in ascending order of position along A.
C20_LineAscending ==
    op = "cell" => Ascending(line_of_blocks, ScanAxis)

\* C20 witness: a line along X of three blocks, one of them a domino along Y
\* that lies on two lines
C20_Witness ==
    /\ op = "cell"
    /\ ScanAxis = "X"
    /\ Len(line_of_blocks) = 3
    /\ \E i \in DOMAIN line_of_blocks : get_elongation(line_of_blocks[i]) = Some("Y")

\* s is obtained from t by dropping elements, the order of the others kept
RECURSIVE IsSubsequence(_, _)
IsSubsequence(s, t) ==
    IF s = <<>> THEN TRUE
    ELSE IF t = <<>> THEN FALSE
    ELSE IF Head(s) = Head(t) THEN IsSubsequence(Tail(s), Tail(t))
    ELSE IsSubsequence(s, Tail(t))

\* what a step of remove_locked may do to the blocks: the blocks left are a
\* subsequence of the blocks before, each as it was; a line holds only blocks
\* that are still there; the blocks dropped are those of to_remove, and none
\* of them is left
C21_Step ==
    /\ IsSubsequence(blocks', blocks)
    /\ op' = "cell" =>
          /\ Range(line_of_blocks') \subseteq Range(blocks)
          /\ Range(blocks) \ Range(blocks') = Range(to_remove')
          /\ Range(to_remove') \cap Range(blocks') = {}

\* C21: remove_locked only deletes: its output is an order-preserving
\* subsequence of its input with every surviving block's direction, min and
\* max unchanged, and a block deleted in one cell is absent from the lines
\* scanned in all later cells and later axis passes.
C21_OnlyDeletes == [][C21_Step]_vars

\* C21 witness: a cell of the first run has deleted blocks and left others,
\* and cells are still to be scanned
C21_Witness ==
    /\ pass = 1
    /\ op = "cell"
    /\ to_remove # <<>>
    /\ blocks # <<>>
    /\ scan # <<>>

(***************************************************************************)
(* Claims about the frame of move_block (SpecMove)                         *)
(***************************************************************************)
\* the block returned has b's direction, b's min and max on the two axes
\* other than the travel axis, and b's size along the travel axis
C22_Frame ==
    (op = "move_block" /\ ~is_none(moved)) =>
        LET b  == unwrap(self_block)
            r  == unwrap(moved)
            ax == b.direction.axis
        IN  /\ r.direction = b.direction
            /\ \A a \in Axis \ {ax} :
                  /\ vec3_component(a, r.min) = vec3_component(a, b.min)
                  /\ vec3_component(a, r.max) = vec3_component(a, b.max)
            /\ Extent(r, ax) = Extent(b, ax)

\* C22: move_block changes only the travel-axis position: for valid-shaped b
\* and o, a block it returns has the direction of b, the min and max of b on
\* the two non-travel axes and the size of b along the travel axis; the call
\* leaves b as it was and o is the obstacle it was given.
C22_OnlyTravelAxis ==
    /\ []C22_Frame
    /\ [][self_block' = self_block
           /\ (op' = "move_block" => unwrap(static_block') \in MoveInputs)]_vars

\* C22 witness: a domino along Y that travels toward -Z was moved
C22_Witness ==
    /\ op = "move_block"
    /\ ~is_none(moved)
    /\ unwrap(self_block).direction = ZN
    /\ get_elongation(unwrap(self_block)) = Some("Y")
    /\ unwrap(moved) # unwrap(self_block)

(***************************************************************************)
(* Claims about the play of a level (SpecFly, SpecGame)                    *)
(***************************************************************************)
\* a primary click on entity e, all blocks at rest, gives e a new geometry and
\* a MoveDest, for some order in which the query yields the blocks
ClickMoves(e) ==
    \E order \in Orders(ents) :
        LET snapshot == [i \in DOMAIN order |-> block[order[i]]]
            b        == block[e]
            near     == get_nearest_block_in_front(b, snapshot)
        IN  new_block(b, pos_opt(b, near)) # b

\* C23: every level returned by generate_level can be cleared by a sequence
\* of primary clicks.  A level that holds a block is then not stuck as it is
\* drawn: a primary click on at least one of its blocks sets that block in
\* motion, since a click that changes nothing leaves the level as it was.
C23_LevelCanBeCleared ==
    (op = "init" /\ ents # {}) => \E e \in ents : ClickMoves(e)

\* a step that is a primary click on an entity that carries MoveDest
ClickOnMoving ==
    /\ op' = "send_block_on_click"
    /\ unwrap(click').button = "Primary"
    /\ ~is_none(move_dest[unwrap(click').target])

\* C24: a primary click on a block that is still animating is ignored: it
\* leaves the geometry of every block and every pending move unchanged and
\* does not abort the program.
C24_ClickOnMovingIgnored ==
    [][ClickOnMoving => (block' = block /\ move_dest' = move_dest /\ ~crashed')]_vars

(***************************************************************************)
(* SpecLaneFair: the lane levels of level 1 played by clicks, with frames  *)
(* that keep arriving: Update runs its systems every frame as long as the  *)
(* program has not aborted.                                                *)
(***************************************************************************)
\* main: insert_resource(CurrentLevel(1)); setup_level has drawn the level
InitLane ==
    /\ op = "init"
    /\ interface = "Gameplay"
    /\ current_level = 1
    /\ \E level \in generate_level(current_level + 2) :
         LET drawn == draw_blocks(level)
         IN  /\ ents = drawn.ents
             /\ block = drawn.block
             /\ translation = drawn.translation
             /\ move_dest = drawn.move_dest
             /\ level_center = drawn.level_center
    /\ crashed = FALSE
    /\ HandlerIdle
    /\ GenIdle
    /\ PruneIdle

NextLane == SendBlockOnClick \/ UpdateFrame

SpecLaneFair == InitLane /\ [][NextLane]_vars /\ WF_vars(UpdateFrame)

\* entity e carries MoveDest
Pending(e) == e \in ents /\ ~is_none(move_dest[e])

\* what a frame does to the blocks that carry MoveDest: one that is despawned
\* was flagged for removal; one that loses its MoveDest was not flagged and
\* rests at its destination; one at rest is left alone
C25_Step ==
    op' = "update" =>
        \A e \in ents :
            IF Pending(e)
            THEN /\ e \notin ents' => unwrap(move_dest[e]).should_despawn
                 /\ (e \in ents' /\ is_none(move_dest'[e])) =>
                       /\ ~unwrap(move_dest[e]).should_despawn
                       /\ translation'[e] = unwrap(move_dest[e]).dest
            ELSE e \in ents' /\ is_none(move_dest'[e])

\* C25: as long as frames keep arriving, every block that was given a move
\* destination eventually stops moving: it is despawned if it was flagged
\* for removal, otherwise it rests at its destination without MoveDest; a
\* block that was not flagged is never despawned.  Unless the program has
\* aborted, the level is again and again without any block that carries
\* MoveDest, so no block carries one forever.
C25_MovingBlockStops ==
    /\ [][C25_Step]_vars
    /\ []<>(crashed \/ \A e \in ents : ~Pending(e))

\* C25 witness: the first block of a level of three has flown away and has
\* been despawned; the other two are at rest
C25_Witness ==
    /\ op = "update"
    /\ ents = {2, 3}
    /\ Resting = ents
    /\ ~crashed

(***************************************************************************)
(* SpecProgress: SpecGame, and the game from the start of the last level   *)
(* whose side fits a u8, on a level of no block or of one block of the     *)
(* lane next to the origin.                                                *)
(***************************************************************************)
\* setup_level has drawn a level of the last side that fits: U8_MAX
InitLate ==
    /\ op = "init"
    /\ interface = "Gameplay"
    /\ current_level = U8_MAX - 2
    /\ \E level \in {<<>>} \cup { <<b>> : b \in LaneBlocks(MaxSide) } :
         LET drawn == draw_blocks(remove_locked(level))
         IN  /\ ents = drawn.ents
             /\ block = drawn.block
             /\ translation = drawn.translation
             /\ move_dest = drawn.move_dest
             /\ level_center = drawn.level_center
    /\ crashed = FALSE
    /\ HandlerIdle
    /\ GenIdle
    /\ PruneIdle

InitProgress == InitGame \/ InitLate

SpecProgress == InitProgress /\ [][NextGame]_vars

\* the cube of generate_level(side)
InCube(b, side) ==
    \A a \in Axis : vec3_component(a, b.min) >= 0 /\ vec3_component(a, b.max) <= side

\* the counter changes only in a frame of Gameplay that finds no block, by
\* one, with the interface set to Menu; the button of the menu draws a level
\* generated for the side current_level + 2
C26_Step ==
    /\ current_level' # current_level =>
          /\ interface = "Gameplay" /\ ents = {} /\ op' = "update"
          /\ current_level' = current_level + 1
          /\ interface' = "Menu"
    /\ op' = "button_system" =>
          /\ ~crashed'
          /\ interface' = "Gameplay"
          /\ \A e \in ents' : InCube(block'[e], current_level + 2)

\* C26: the level counter changes only when no block remains in the level
\* during gameplay; it then increases by exactly one and the interface
\* returns to the menu; the next level is generated with cube side
\* level + 2.
C26_LevelProgression == [][C26_Step]_vars

====
